---- MODULE Spec2Model ----
(***************************************************************************)
(* Uptime monitor bot (src/app.py, the program text held in RAW_CODE).     *)
(*                                                                         *)
(* The bot runs on one asyncio event loop.  A coroutine runs without       *)
(* interruption until it awaits network I/O of the chat client             *)
(* (channel.send, interaction.response.send_message); requests.get blocks  *)
(* the whole loop.  The variable running names the coroutine that holds    *)
(* the loop: the other coroutines take steps only while it is "none".      *)
(* Wall-clock time (now) advances independently of the loop.               *)
(***************************************************************************)
EXTENDS Integers, Sequences, FiniteSets, TLC

(***************************************************************************)
(* Bounds of the model.                                                    *)
(***************************************************************************)
MaxEvents == 5          \* clock steps, probes and monitors created by add, together
MaxAppends == 52        \* records appended in the history specification
MaxFailedRecords == 1   \* failure records among them

(***************************************************************************)
(* Program constants.                                                      *)
(***************************************************************************)
HistoryCap == 50        \* add_status_record keeps the last 50 records
FailureThreshold == 2   \* WebsiteMonitor.failure_threshold
TickPeriod == 30        \* @tasks.loop(seconds=30)
DefaultInterval == 60   \* check_interval default
DefaultTimeout == 10    \* timeout default
StatusOkLow == 200      \* 200 <= status_code
StatusOkHigh == 400     \* status_code < 400

(***************************************************************************)
(* Inputs.                                                                 *)
(***************************************************************************)
StartTime == TickPeriod                 \* time.time() at construction (positive)
ClockStep == TickPeriod                 \* granularity of the modelled clock
Names == {"a", "b"}
AddIntervals == {TickPeriod}            \* the interval option of add
Latencies == {120}
GoodUrl == <<"h", ":", "/", "/", "x">>
\* "", "x-x", "h://x", "h://", "//x", "h:x", "-://x"
Urls ==
  { <<>>, <<"x", "-", "x">>, GoodUrl, <<"h", ":", "/", "/">>,
    <<"/", "/", "x">>, <<"h", ":", "x">>, <<"-", ":", "/", "/", "x">> }
\* what requests.get does: a response with a status code, or an exception
StatusCodes == {200, 500}
ProbeExceptions == {"Timeout"}
ProbeOutcomes ==
  [kind : {"response"}, status : StatusCodes, exc : {""}]
    \cup [kind : {"raise"}, status : {0}, exc : ProbeExceptions]
\* what channel.send does: returns, raises discord.Forbidden, raises another error
SendOutcomes == {"ok", "Forbidden", "HTTPException"}

DictUsable == 5                         \* entries a new dict takes before it is resized
None == -1                              \* Python None in a timestamp field
Dummy == 0                              \* a deleted slot of the dict's entry table
Procs == {"tick", "add"}

VARIABLES
  now,          \* time.time()
  objs,         \* heap of WebsiteMonitor objects, indexed by object id
  entries,      \* bot.monitors: the dict's entry table, object ids in insertion order
  store,        \* monitors.json
  running,      \* the coroutine holding the event loop
  pc,           \* per coroutine: where it is
  cur,          \* per coroutine: the monitor object and alert it is working on
  iter,         \* the dict iterator of check_websites
  nextTick,     \* time of the next iteration of the check_websites loop
  reply,        \* last response of monitor_command
  logReplies,   \* whether reply is recorded
  diskOk,       \* whether writing monitors.json succeeds
  alerts,       \* per object: the alerts given to send_alert, in order
  probeLog,     \* per object: the probes applied to it, in order
  flips,        \* per object: the changes of is_up, in order
  appended,     \* per object: every record given to add_status_record
  events        \* clock steps, probes and adds so far

vars == <<now, objs, entries, store, running, pc, cur, iter, nextTick, reply,
          logReplies, diskOk, alerts, probeLog, flips, appended, events>>

(***************************************************************************)
(* Python helpers.                                                         *)
(***************************************************************************)
\* truth value of an optional timestamp: None and 0 are false
Truthy(t) == t # None /\ t # 0

RECURSIVE SumSeq(_)
SumSeq(s) == IF s = <<>> THEN 0 ELSE Head(s) + SumSeq(Tail(s))

\* str.find(c): first index (1-based) of c in s, 0 when absent
Find(s, c) ==
  IF \E i \in 1..Len(s) : s[i] = c
    THEN CHOOSE i \in 1..Len(s) : s[i] = c /\ \A j \in 1..(i - 1) : s[j] # c
    ELSE 0

Letters == {"h", "x"}
SchemeChars == Letters \cup {"-"}       \* letters, digits and "+-." in urllib

\* urllib.parse.urlsplit, the scheme and netloc components
UrlParse(url) ==
  LET i == Find(url, ":")
      hasScheme == /\ i > 1
                   /\ url[1] \in Letters
                   /\ \A j \in 1..(i - 1) : url[j] \in SchemeChars
      scheme == IF hasScheme THEN SubSeq(url, 1, i - 1) ELSE <<>>
      rest == IF hasScheme THEN SubSeq(url, i + 1, Len(url)) ELSE url
      slashes == Len(rest) >= 2 /\ rest[1] = "/" /\ rest[2] = "/"
      after == IF slashes THEN SubSeq(rest, 3, Len(rest)) ELSE <<>>
      delim == Find(after, "/")
      netloc == IF ~slashes THEN <<>>
                ELSE IF delim = 0 THEN after ELSE SubSeq(after, 1, delim - 1)
  IN [scheme |-> scheme, netloc |-> netloc]

\* a faulty validation that looks at the scheme only (property C10 must reject it)
BadUrlFormatSchemeOnly(url) == UrlParse(url).scheme = <<>>

\* monitor_command add: "if not parsed.scheme or not parsed.netloc: raise ValueError"
BadUrlFormat(url) == UrlParse(url).scheme = <<>> \/ UrlParse(url).netloc = <<>>

ValidUrl(url) == ~BadUrlFormat(url)

(***************************************************************************)
(* class WebsiteMonitor                                                    *)
(***************************************************************************)
WebsiteMonitor(name, url, check_interval, timeout) ==
  [ name |-> name, url |-> url, check_interval |-> check_interval,
    timeout |-> timeout, is_up |-> TRUE, last_checked |-> None,
    last_up_time |-> None, response_times |-> <<>>, downtime_start |-> None,
    total_downtime |-> 0, consecutive_failures |-> 0,
    failure_threshold |-> FailureThreshold, status_history |-> <<>>,
    last_check_succeeded |-> "None" ]

\* datetime.isoformat() and datetime.fromisoformat(): the text carries the date
\* and the time of day
SecondsPerDay == 86400
isoformat(t) == [date |-> t \div SecondsPerDay, time |-> t % SecondsPerDay]
fromisoformat(s) == s.date * SecondsPerDay + s.time

StatusRecord(t, status, response_time, error) ==
  [timestamp |-> isoformat(t), status |-> status,
   response_time |-> response_time, error |-> error]

\* a faulty eviction that drops the newest record (property C7 must reject it)
EvictNewest(h) == IF Len(h) > HistoryCap THEN SubSeq(h, 1, HistoryCap) ELSE h

\* the eviction of add_status_record: pop(0) when longer than the capacity
Evict(h) == IF Len(h) > HistoryCap THEN Tail(h) ELSE h

add_status_record(m, t, status, response_time, error) ==
  [m EXCEPT !.status_history =
     Evict(Append(m.status_history, StatusRecord(t, status, response_time, error)))]

\* a float that is a ratio of two small integers, in lowest terms
RECURSIVE Gcd(_, _)
Gcd(a, b) == IF b = 0 THEN a ELSE Gcd(b, a % b)
Ratio(n, d) == [num |-> n \div Gcd(n, d), den |-> d \div Gcd(n, d)]

\* get_avg_response_time: the mean of the last 10 response times, 0 without any
RecentCount == 10
get_avg_response_time(m) ==
  IF m.response_times = <<>> THEN Ratio(0, 1)
  ELSE LET n == Len(m.response_times)
           recent == SubSeq(m.response_times,
                            IF n > RecentCount THEN n - RecentCount + 1 ELSE 1, n)
       IN Ratio(SumSeq(recent), Len(recent))

SecondsPerHour == 3600
IsUpRecord(r) == r.status

\* a faulty window that keeps the record at the cutoff (property C20 must reject it)
get_uptime_percentage_inclusive(m, t, hours) ==
  LET cutoff_time == t - hours * SecondsPerHour
      recent_records == SelectSeq(m.status_history,
                          LAMBDA r : fromisoformat(r.timestamp) >= cutoff_time)
      up_count == Len(SelectSeq(recent_records, IsUpRecord))
  IN IF m.status_history = <<>> \/ recent_records = <<>> THEN Ratio(100, 1)
     ELSE Ratio(up_count * 100, Len(recent_records))

\* get_uptime_percentage(hours) called at time t
get_uptime_percentage(m, t, hours) ==
  IF m.status_history = <<>> THEN Ratio(100, 1)
  ELSE LET cutoff_time == t - hours * SecondsPerHour
           recent_records == SelectSeq(m.status_history,
                               LAMBDA r : fromisoformat(r.timestamp) > cutoff_time)
           up_count == Len(SelectSeq(recent_records, IsUpRecord))
       IN IF recent_records = <<>> THEN Ratio(100, 1)
          ELSE Ratio(up_count * 100, Len(recent_records))

(***************************************************************************)
(* Transition engine: handle_website_up / handle_website_down.  Each has   *)
(* a head (up to the await of send_alert) and a tail (add_status_record).  *)
(***************************************************************************)
\* a faulty handler that never takes the recovery branch (property C4 must reject it)
RecoversNever(m) == FALSE

\* "if not monitor.is_up": the recovery branch is taken
Recovers(m) == ~m.is_up

\* the recovery branch: lines 337-346
RecoveryUpdate(m, t) ==
  [m EXCEPT !.is_up = TRUE,
            !.last_up_time = t,
            !.total_downtime =
               IF Truthy(m.downtime_start) THEN @ + (t - m.downtime_start) ELSE @,
            !.consecutive_failures = 0]

handle_website_up_head(m, t, response_time) ==
  LET m1 == [m EXCEPT !.last_checked = t,
                      !.response_times = Append(@, response_time)]
  IN IF Recovers(m1) THEN RecoveryUpdate(m1, t) ELSE m1

\* a faulty handler that alerts at the first failure (property C1 must reject it)
CrossesAtOnce(m) == m.is_up

\* "if monitor.is_up and monitor.consecutive_failures >= monitor.failure_threshold",
\* evaluated after the increment
CrossesThreshold(m) ==
  m.is_up /\ m.consecutive_failures + 1 >= m.failure_threshold

handle_website_down_head(m, t) ==
  LET m1 == [m EXCEPT !.last_checked = t,
                      !.consecutive_failures = @ + 1]
  IN IF CrossesThreshold(m)
       THEN [m1 EXCEPT !.is_up = FALSE, !.downtime_start = t]
       ELSE m1

\* the handler's tail and the assignment that follows the handler's return in
\* check_single_website
FinishCheck(m, t, handler, response_time, error) ==
  IF handler = "up"
    THEN [add_status_record(m, t, TRUE, response_time, "")
            EXCEPT !.last_check_succeeded = "True"]
    ELSE [add_status_record(m, t, FALSE, 0, error)
            EXCEPT !.last_check_succeeded = "False"]

FinishRecord(t, handler, response_time, error) ==
  IF handler = "up" THEN StatusRecord(t, TRUE, response_time, "")
                    ELSE StatusRecord(t, FALSE, 0, error)

\* the error text of the except clause that catches an exception of requests.get:
\* Timeout, ConnectionError, another RequestException (str(e)), anything else
RequestErrors == {"Exceeded 30 redirects."}
ExceptionText(exc) ==
  IF exc = "Timeout" THEN "Timeout"
  ELSE IF exc = "ConnectionError" THEN "Connection Error"
  ELSE IF exc \in RequestErrors THEN exc
  ELSE "Unexpected Error: " \o exc

\* a faulty test that has no upper limit (property C14 must reject it)
StatusIsUpLoose(status) == StatusOkLow <= status

\* "is_up = 200 <= response.status_code < 400"
StatusIsUp(status) == StatusOkLow <= status /\ status < StatusOkHigh

HttpErrorText(status) == "HTTP " \o ToString(status)

(***************************************************************************)
(* bot.monitors: a Python dict.  Deleting leaves a dummy slot, inserting   *)
(* appends; its iterator remembers a position, the number of items left    *)
(* and the size at creation.                                               *)
(***************************************************************************)
LiveIdx == {i \in 1..Len(entries) : entries[i] # Dummy}
Used == Cardinality(LiveIdx)
LiveIds == {entries[i] : i \in LiveIdx}
RegisteredNames == {objs[id].name : id \in LiveIds}
\* a faulty lookup that takes any entry of the dict (property C11 must reject it)
LookupAny(name) == CHOOSE i \in LiveIdx : TRUE

Lookup(name) == CHOOSE i \in LiveIdx : objs[entries[i]].name = name

\* the record save_monitors writes for one monitor
MonitorData(m) ==
  [name |-> m.name, url |-> m.url, check_interval |-> m.check_interval,
   timeout |-> m.timeout, is_up |-> m.is_up]

RECURSIVE SnapshotFrom(_, _, _)
SnapshotFrom(ents, heap, i) ==
  IF i > Len(ents) THEN <<>>
  ELSE IF ents[i] = Dummy THEN SnapshotFrom(ents, heap, i + 1)
  ELSE <<MonitorData(heap[ents[i]])>> \o SnapshotFrom(ents, heap, i + 1)

\* save_monitors: the file content for a registry
save_monitors(ents, heap) == [exists |-> TRUE, data |-> SnapshotFrom(ents, heap, 1)]

\* a faulty load that forgets is_up (property C21 must reject it)
LoadOneFresh(d) == WebsiteMonitor(d.name, d.url, d.check_interval, d.timeout)

\* load_monitors: one object per record of the file, is_up restored
LoadOne(d) ==
  [WebsiteMonitor(d.name, d.url, d.check_interval, d.timeout)
     EXCEPT !.is_up = d.is_up]

load_monitors(file) ==
  IF file.exists THEN [i \in 1..Len(file.data) |-> LoadOne(file.data[i])]
                 ELSE <<>>

\* the monitors.json files the bot may start from: none, or one written by
\* save_monitors for a registry holding monitor "a"
SavedRecords ==
  [name : {"a"}, url : {GoodUrl}, check_interval : {DefaultInterval},
   timeout : {DefaultTimeout}, is_up : BOOLEAN]

Files ==
  {[exists |-> FALSE, data |-> <<>>]}
    \cup {[exists |-> TRUE, data |-> <<d>>] : d \in SavedRecords}

\* a faulty due test that ignores last_checked (property C8 must reject it)
DueAlways(m, t) == TRUE

\* check_websites: the due test
Due(m, t) == ~(Truthy(m.last_checked) /\ t - m.last_checked < m.check_interval)

NoCur == [mon |-> 0, handler |-> "", inTry |-> FALSE, response_time |-> 0, error |-> ""]
NoIter == [pos |-> 0, len |-> 0, di_used |-> 0]
NoReply == [action |-> "", name |-> "", url |-> <<>>, result |-> ""]

\* the response of a command, kept when responses are recorded
Say(r) == IF logReplies THEN r ELSE reply

(***************************************************************************)
(* Initial state: UptimeBot.__init__ has run load_monitors.                *)
(***************************************************************************)
Init ==
  /\ now = StartTime
  /\ \E f \in Files :
       /\ store = f
       /\ objs = load_monitors(f)
       /\ entries = [i \in 1..Len(f.data) |-> i]
       /\ alerts = [i \in 1..Len(f.data) |-> <<>>]
       /\ probeLog = [i \in 1..Len(f.data) |-> <<>>]
       /\ flips = [i \in 1..Len(f.data) |-> <<>>]
       /\ appended = [i \in 1..Len(f.data) |-> <<>>]
  /\ running = "none"
  /\ pc = [p \in Procs |-> "idle"]
  /\ cur = [p \in Procs |-> NoCur]
  /\ iter = NoIter
  /\ nextTick = StartTime
  /\ reply = NoReply
  /\ logReplies = FALSE
  /\ diskOk = TRUE
  /\ events = 0

(***************************************************************************)
(* The heap.  An object that is neither in the dict nor held by a          *)
(* coroutine is unreachable: it is freed, and what was logged about it is  *)
(* dropped with it.                                                        *)
(***************************************************************************)
Freed == WebsiteMonitor("", <<>>, 0, 0)

Sweep(heap, keep) ==
  [i \in 1..Len(heap) |-> IF i \in keep THEN heap[i] ELSE Freed]

SweepLog(log, keep) ==
  [i \in 1..Len(log) |-> IF i \in keep THEN log[i] ELSE <<>>]

\* the objects the coroutines other than p hold
HeldByOthers(p) == {cur[q].mon : q \in Procs \ {p}}

\* nothing is written; the objects in keep stay
Retain(keep) ==
  /\ objs' = Sweep(objs, keep)
  /\ alerts' = SweepLog(alerts, keep)
  /\ probeLog' = SweepLog(probeLog, keep)
  /\ flips' = SweepLog(flips, keep)
  /\ appended' = SweepLog(appended, keep)

\* object id becomes m2; probed, raised and recs are what the step adds to the
\* logs of the object (a change of is_up is logged too)
Commit(id, m2, probed, raised, recs, keep) ==
  /\ objs' = Sweep([objs EXCEPT ![id] = m2], keep)
  /\ alerts' = SweepLog([alerts EXCEPT ![id] = @ \o raised], keep)
  /\ probeLog' = SweepLog([probeLog EXCEPT ![id] = @ \o probed], keep)
  /\ flips' = SweepLog(
       IF m2.is_up # objs[id].is_up
         THEN [flips EXCEPT ![id] = Append(@, [t |-> now, up |-> m2.is_up])]
         ELSE flips, keep)
  /\ appended' = SweepLog([appended EXCEPT ![id] = @ \o recs], keep)

(***************************************************************************)
(* Shared pieces of the coroutines.                                        *)
(***************************************************************************)
\* the coroutine awaits channel.send: the event loop is free
\* a faulty await that lets the for loop go on while the alert is being sent
\* (property C15 must reject it)
SuspendDetached(p, c) ==
  /\ pc' = [pc EXCEPT ![p] = IF p = "tick" THEN "iter" ELSE "send"]
  /\ cur' = [cur EXCEPT ![p] = c]
  /\ running' = IF p = "tick" THEN "tick" ELSE "none"
  /\ reply' = reply

Suspend(p, c) ==
  /\ pc' = [pc EXCEPT ![p] = "send"]
  /\ cur' = [cur EXCEPT ![p] = c]
  /\ running' = "none"
  /\ reply' = reply

\* check_single_website returned to its caller: the for loop of check_websites
\* goes on; monitor_command reports last_check_succeeded and ends
Resume(p, m2) ==
  /\ cur' = [cur EXCEPT ![p] = NoCur]
  /\ IF p = "tick"
       THEN /\ pc' = [pc EXCEPT ![p] = "iter"]
            /\ running' = "tick"
            /\ reply' = reply
       ELSE /\ pc' = [pc EXCEPT ![p] = "idle"]
            /\ running' = "none"
            /\ reply' = Say([action |-> "add", name |-> m2.name, url |-> m2.url,
                             result |-> IF m2.last_check_succeeded = "True"
                                          THEN "added_up" ELSE "added_down"])

\* an exception leaves the coroutine: the check_websites loop task ends, the
\* command fails
Escape(p) ==
  /\ cur' = [cur EXCEPT ![p] = NoCur]
  /\ running' = "none"
  /\ reply' = reply
  /\ pc' = [pc EXCEPT ![p] = IF p = "tick" THEN "dead" ELSE "idle"]

\* a faulty choice of the alert that reports every change as Down
\* (property C23 must reject it)
AlertKindDown(handler) == "Down"

AlertKind(handler) == IF handler = "up" THEN "Recovery" ELSE "Down"

\* one handler call of check_single_website on object id, up to its first
\* await; probed is the probe it answers, if it answers one
RunHandler(p, id, handler, response_time, error, inTry, probed) ==
  LET m == objs[id]
      head == IF handler = "up"
                THEN handle_website_up_head(m, now, response_time)
                ELSE handle_website_down_head(m, now)
      alert == IF handler = "up" THEN Recovers(m) ELSE CrossesThreshold(m)
      done == FinishCheck(head, now, handler, response_time, error)
  IN IF alert
       THEN /\ Commit(id, head, probed, <<AlertKind(handler)>>, <<>>,
                      LiveIds \cup HeldByOthers(p) \cup {id})
            /\ Suspend(p, [mon |-> id, handler |-> handler, inTry |-> inTry,
                           response_time |-> response_time, error |-> error])
       ELSE /\ Commit(id, done, probed, <<>>,
                      <<FinishRecord(now, handler, response_time, error)>>,
                      LiveIds \cup HeldByOthers(p))
            /\ Resume(p, done)

\* check_single_website on object id: requests.get returns or raises, and the
\* handler runs up to its first await
check_single_website(p, id, o) ==
  LET probed == <<[t |-> now, by |-> p, outcome |-> o,
                   ok |-> o.kind = "response" /\ StatusIsUp(o.status)]>>
  IN IF o.kind = "response"
       THEN IF StatusIsUp(o.status)
              THEN \E rt \in Latencies :
                     RunHandler(p, id, "up", rt, "", TRUE, probed)
              ELSE RunHandler(p, id, "down", 0, HttpErrorText(o.status), TRUE,
                              probed)
       ELSE RunHandler(p, id, "down", 0, ExceptionText(o.exc), FALSE, probed)

(***************************************************************************)
(* The clock.                                                              *)
(***************************************************************************)
\* the loop task wakes at nextTick: time does not pass that point while the
\* iteration is waiting for a free event loop
TickPending == pc["tick"] = "idle" /\ running = "none" /\ now >= nextTick

Advance ==
  /\ events < MaxEvents
  /\ ~TickPending
  /\ now' = now + ClockStep
  /\ events' = events + 1
  /\ UNCHANGED <<objs, entries, store, running, pc, cur, iter, nextTick, reply,
                 logReplies, diskOk, alerts, probeLog, flips, appended>>

(***************************************************************************)
(* check_websites, the 30 second loop.                                     *)
(***************************************************************************)
\* the slots the iterator has not passed yet
AheadIdx == {i \in LiveIdx : i > iter.pos}
NextSlot == CHOOSE i \in AheadIdx : \A j \in AheadIdx : i <= j

\* an iteration starts; "if not self.monitors: return"
TickStart ==
  /\ running = "none"
  /\ pc["tick"] = "idle"
  /\ now >= nextTick
  /\ nextTick' = now + TickPeriod
  /\ IF Used = 0
       THEN UNCHANGED <<pc, running, iter>>
       ELSE /\ pc' = [pc EXCEPT !["tick"] = "iter"]
            /\ running' = "tick"
            /\ iter' = [pos |-> 0, len |-> Used, di_used |-> Used]
  /\ UNCHANGED <<now, objs, entries, store, cur, reply, logReplies, diskOk,
                 alerts, probeLog, flips, appended, events>>

\* next() of the dict iterator raises RuntimeError: the dict changed size, or
\* its keys changed, while the loop was suspended
IterRaises ==
  \/ Used # iter.di_used
  \/ (AheadIdx # {} /\ iter.len = 0)

TickRaise ==
  /\ running = "tick"
  /\ pc["tick"] = "iter"
  /\ IterRaises
  /\ Escape("tick")
  /\ iter' = NoIter
  /\ UNCHANGED <<now, objs, entries, store, nextTick, logReplies, diskOk,
                 alerts, probeLog, flips, appended, events>>

\* the iterator is exhausted: the iteration of the loop ends
TickDone ==
  /\ running = "tick"
  /\ pc["tick"] = "iter"
  /\ ~IterRaises
  /\ AheadIdx = {}
  /\ pc' = [pc EXCEPT !["tick"] = "idle"]
  /\ running' = "none"
  /\ iter' = NoIter
  /\ UNCHANGED <<now, objs, entries, store, cur, nextTick, reply, logReplies,
                 diskOk, alerts, probeLog, flips, appended, events>>

\* the loop reaches a monitor that is not due: continue
TickSkip ==
  /\ running = "tick"
  /\ pc["tick"] = "iter"
  /\ ~IterRaises
  /\ AheadIdx # {}
  /\ ~Due(objs[entries[NextSlot]], now)
  /\ iter' = [iter EXCEPT !.pos = NextSlot, !.len = @ - 1]
  /\ UNCHANGED <<now, objs, entries, store, running, pc, cur, nextTick, reply,
                 logReplies, diskOk, alerts, probeLog, flips, appended, events>>

\* the loop reaches a due monitor: "await self.check_single_website(monitor)"
TickProbe(o) ==
  /\ running = "tick"
  /\ pc["tick"] = "iter"
  /\ ~IterRaises
  /\ AheadIdx # {}
  /\ Due(objs[entries[NextSlot]], now)
  /\ events < MaxEvents
  /\ iter' = [iter EXCEPT !.pos = NextSlot, !.len = @ - 1]
  /\ check_single_website("tick", entries[NextSlot], o)
  /\ events' = events + 1
  /\ UNCHANGED <<now, entries, store, nextTick, logReplies, diskOk>>

(***************************************************************************)
(* send_alert: channel.send returns or raises.  Only discord.Forbidden is  *)
(* caught in send_alert; another error raised inside the try block of      *)
(* check_single_website reaches "except Exception", one raised inside an   *)
(* except clause leaves check_single_website.                              *)
(***************************************************************************)
SendReturn(p, r) ==
  /\ running = "none"
  /\ pc[p] = "send"
  /\ LET c == cur[p]
         m == objs[c.mon]
         done == FinishCheck(m, now, c.handler, c.response_time, c.error)
     IN
     /\ IF r \in {"ok", "Forbidden"}
          THEN /\ Commit(c.mon, done, <<>>, <<>>,
                         <<FinishRecord(now, c.handler, c.response_time, c.error)>>,
                         LiveIds \cup HeldByOthers(p))
               /\ Resume(p, done)
          ELSE IF c.inTry
            THEN RunHandler(p, c.mon, "down", 0, "Unexpected Error: " \o r,
                            FALSE, <<>>)
            ELSE /\ Escape(p)
                 /\ Retain(LiveIds \cup HeldByOthers(p))
     /\ iter' = IF p = "tick" /\ r = "HTTPException" /\ ~c.inTry
                  THEN NoIter ELSE iter
  /\ UNCHANGED <<now, entries, store, nextTick, logReplies, diskOk, events>>

(***************************************************************************)
(* monitor_command, action "add".                                          *)
(***************************************************************************)
\* what open/json.dump in save_monitors does: the disk works, or it does not
SaveOutcomes == IF diskOk THEN {"ok"} ELSE {"IOError"}

\* the outcome of the checks before a monitor is created
AddVerdict(name, url) ==
  IF url = <<>> THEN "missing"
  ELSE IF BadUrlFormat(url) THEN "invalid"
  ELSE IF name \in RegisteredNames THEN "duplicate"
  ELSE "accepted"

\* one of the early returns: only a message is sent
AddReject(name, url) ==
  /\ running = "none"
  /\ pc["add"] = "idle"
  /\ AddVerdict(name, url) # "accepted"
  /\ reply' = Say([action |-> "add", name |-> name, url |-> url,
                   result |-> AddVerdict(name, url)])
  /\ UNCHANGED <<now, objs, entries, store, running, pc, cur, iter, nextTick,
                 logReplies, diskOk, alerts, probeLog, flips, appended, events>>

\* the monitor is created, inserted and saved; the command then awaits
\* interaction.response.send_message.  A failing save leaves the command.
\* a faulty add that takes the monitor out again when save_monitors fails
\* (property C22 must reject it)
AddAcceptRollback(name, url, interval, saved) ==
  /\ running = "none"
  /\ pc["add"] = "idle"
  /\ events < MaxEvents
  /\ Len(entries) < DictUsable
  /\ AddVerdict(name, url) = "accepted"
  /\ saved # "ok"
  /\ reply' = Say([action |-> "add", name |-> name, url |-> url,
                   result |-> "error"])
  /\ events' = events + 1
  /\ UNCHANGED <<now, objs, entries, store, running, pc, cur, iter, nextTick,
                 logReplies, diskOk, alerts, probeLog, flips, appended>>

AddAccept(name, url, interval, saved) ==
  /\ running = "none"
  /\ pc["add"] = "idle"
  /\ events < MaxEvents
  /\ Len(entries) < DictUsable
  /\ AddVerdict(name, url) = "accepted"
  /\ LET id == Len(objs) + 1
         heap == Append(objs, WebsiteMonitor(name, url, interval, DefaultTimeout))
         ents == Append(entries, id)
     IN /\ objs' = heap
        /\ entries' = ents
        /\ alerts' = Append(alerts, <<>>)
        /\ probeLog' = Append(probeLog, <<>>)
        /\ flips' = Append(flips, <<>>)
        /\ appended' = Append(appended, <<>>)
        /\ IF saved = "ok"
             THEN /\ store' = save_monitors(ents, heap)
                  /\ pc' = [pc EXCEPT !["add"] = "msg"]
                  /\ cur' = [cur EXCEPT !["add"] = [NoCur EXCEPT !.mon = id]]
             ELSE UNCHANGED <<store, pc, cur>>
        /\ reply' = Say([action |-> "add", name |-> name, url |-> url,
                         result |-> IF saved = "ok" THEN "accepted" ELSE "error"])
  /\ events' = events + 1
  /\ UNCHANGED <<now, running, iter, nextTick, logReplies, diskOk>>

\* the "testing URL" message is delivered: "await bot.check_single_website(monitor)"
AddProbe(o) ==
  /\ running = "none"
  /\ pc["add"] = "msg"
  /\ events < MaxEvents
  /\ check_single_website("add", cur["add"].mon, o)
  /\ events' = events + 1
  /\ UNCHANGED <<now, entries, store, iter, nextTick, logReplies, diskOk>>

\* the delivery of the message raises: the command ends without a probe
AddMsgFail ==
  /\ running = "none"
  /\ pc["add"] = "msg"
  /\ pc' = [pc EXCEPT !["add"] = "idle"]
  /\ cur' = [cur EXCEPT !["add"] = NoCur]
  /\ Retain(LiveIds \cup HeldByOthers("add"))
  /\ UNCHANGED <<now, entries, store, running, iter, nextTick, reply,
                 logReplies, diskOk, events>>

(***************************************************************************)
(* monitor_command, action "remove".                                       *)
(***************************************************************************)
RemoveMissing(name) ==
  /\ running = "none"
  /\ name \notin RegisteredNames
  /\ reply' = Say([action |-> "remove", name |-> name, url |-> <<>>,
                   result |-> "not_found"])
  /\ UNCHANGED <<now, objs, entries, store, running, pc, cur, iter, nextTick,
                 logReplies, diskOk, alerts, probeLog, flips, appended, events>>

\* "del bot.monitors[name]" and save_monitors
RemoveCmd(name, saved) ==
  /\ running = "none"
  /\ name \in RegisteredNames
  /\ LET ents == [entries EXCEPT ![Lookup(name)] = Dummy]
     IN /\ entries' = ents
        /\ store' = IF saved = "ok" THEN save_monitors(ents, objs) ELSE store
        /\ Retain((LiveIds \ {entries[Lookup(name)]})
                    \cup {cur[q].mon : q \in Procs})
  /\ reply' = Say([action |-> "remove", name |-> name, url |-> <<>>,
                   result |-> IF saved = "ok" THEN "removed" ELSE "error"])
  /\ UNCHANGED <<now, running, pc, cur, iter, nextTick, logReplies, diskOk,
                 events>>

(***************************************************************************)
(* generate_dashboard_embed: called by monitor_command "dashboard", by the *)
(* buttons of DashboardView and by update_dashboard.  It runs without an   *)
(* await, so it sees the monitors as the suspended coroutines left them.   *)
(***************************************************************************)
\* sorted(self.monitors.items()): the registered names in alphabetical order
NameOrder == <<"a", "b">>
IsRegistered(n) == n \in RegisteredNames
SortedNames == SelectSeq(NameOrder, IsRegistered)

\* "{:.1f}".format(x) of a ratio: tenths, rounded to the nearest
RoundHalfEven(n, d) ==
  LET q == n \div d
      rest == n % d
  IN IF 2 * rest > d \/ (2 * rest = d /\ q % 2 = 1) THEN q + 1 ELSE q
\* "{:.1f}" of a ratio, in tenths, and "{:.0f}" of a ratio
Tenths(r) == RoundHalfEven(10 * r.num, r.den)
Whole(r) == RoundHalfEven(r.num, r.den)

\* the lines of one monitor
SiteLine(m, t) ==
  [name |-> m.name,
   is_up |-> m.is_up,
   avg_time |-> Whole(get_avg_response_time(m)),
   uptime_24h |-> Tenths(get_uptime_percentage(m, t, 24)),
   duration |-> IF m.is_up
                  THEN IF Truthy(m.last_up_time) THEN t - m.last_up_time ELSE None
                  ELSE IF Truthy(m.downtime_start) THEN t - m.downtime_start
                       ELSE None]

NoSites == [empty |-> TRUE, total |-> 0, up |-> 0, down |-> 0, health |-> None,
            sites |-> <<>>]

\* a faulty embed that counts every monitor object ever made, registered or not
\* (property C18 must reject it)
generate_dashboard_embed_all(t) ==
  LET total_sites == Used
      up_sites == Cardinality({id \in DOMAIN objs : objs[id].is_up})
      down_sites == total_sites - up_sites
  IN IF total_sites = 0 THEN NoSites
     ELSE [empty |-> FALSE, total |-> total_sites, up |-> up_sites,
           down |-> down_sites,
           health |-> Tenths(Ratio(up_sites * 100, total_sites)),
           sites |-> [i \in 1..Len(SortedNames) |->
                        SiteLine(objs[entries[Lookup(SortedNames[i])]], t)]]

generate_dashboard_embed(t) ==
  LET total_sites == Used
      up_sites == Cardinality({id \in LiveIds : objs[id].is_up})
      down_sites == total_sites - up_sites
  IN IF total_sites = 0 THEN NoSites
     ELSE [empty |-> FALSE, total |-> total_sites, up |-> up_sites,
           down |-> down_sites,
           health |-> Tenths(Ratio(up_sites * 100, total_sites)),
           sites |-> [i \in 1..Len(SortedNames) |->
                        SiteLine(objs[entries[Lookup(SortedNames[i])]], t)]]

\* the embed is built and handed to the chat client
Dashboard ==
  /\ running = "none"
  /\ reply' = Say([action |-> "dashboard", name |-> "", url |-> <<>>,
                   result |-> "embed", embed |-> generate_dashboard_embed(now)])
  /\ UNCHANGED <<now, objs, entries, store, running, pc, cur, iter, nextTick,
                 logReplies, diskOk, alerts, probeLog, flips, appended, events>>

\* the response has left the bot, which keeps nothing of it
Delivered ==
  /\ reply # NoReply
  /\ reply' = NoReply
  /\ UNCHANGED <<now, objs, entries, store, running, pc, cur, iter, nextTick,
                 logReplies, diskOk, alerts, probeLog, flips, appended, events>>

(***************************************************************************)
(* The program.                                                            *)
(***************************************************************************)
Next ==
  \/ Advance
  \/ TickStart
  \/ TickRaise
  \/ TickDone
  \/ TickSkip
  \/ \E o \in ProbeOutcomes : TickProbe(o)
  \/ \E p \in Procs, r \in SendOutcomes : SendReturn(p, r)
  \/ \E n \in Names, u \in Urls : AddReject(n, u)
  \/ \E n \in Names, u \in Urls, i \in AddIntervals, s \in SaveOutcomes :
       AddAccept(n, u, i, s)
  \/ \E o \in ProbeOutcomes : AddProbe(o)
  \/ AddMsgFail
  \/ \E n \in Names : RemoveMissing(n)
  \/ \E n \in Names, s \in SaveOutcomes : RemoveCmd(n, s)

Spec == Init /\ [][Next]_vars

(***************************************************************************)
(* The bot with its dashboard, each response recorded until it is          *)
(* delivered.                                                              *)
(***************************************************************************)
InitDash ==
  /\ now = StartTime
  /\ \E f \in Files :
       /\ store = f
       /\ objs = load_monitors(f)
       /\ entries = [i \in 1..Len(f.data) |-> i]
       /\ alerts = [i \in 1..Len(f.data) |-> <<>>]
       /\ probeLog = [i \in 1..Len(f.data) |-> <<>>]
       /\ flips = [i \in 1..Len(f.data) |-> <<>>]
       /\ appended = [i \in 1..Len(f.data) |-> <<>>]
  /\ running = "none"
  /\ pc = [p \in Procs |-> "idle"]
  /\ cur = [p \in Procs |-> NoCur]
  /\ iter = NoIter
  /\ nextTick = StartTime
  /\ reply = NoReply
  /\ logReplies = TRUE
  /\ diskOk = TRUE
  /\ events = 0

\* the URLs given to add here: one that is accepted, one without host
DashUrls == {GoodUrl, <<"h", ":", "/", "/">>}

BotStep ==
  \/ Advance
  \/ TickStart
  \/ TickRaise
  \/ TickDone
  \/ TickSkip
  \/ \E o \in ProbeOutcomes : TickProbe(o)
  \/ \E p \in Procs, r \in SendOutcomes : SendReturn(p, r)
  \/ \E n \in Names, u \in DashUrls : AddReject(n, u)
  \/ \E n \in Names, u \in DashUrls, i \in AddIntervals, s \in SaveOutcomes :
       AddAccept(n, u, i, s)
  \/ \E o \in ProbeOutcomes : AddProbe(o)
  \/ AddMsgFail
  \/ \E n \in Names : RemoveMissing(n)
  \/ \E n \in Names, s \in SaveOutcomes : RemoveCmd(n, s)
  \/ Dashboard

NextDash ==
  \/ reply = NoReply /\ BotStep
  \/ Delivered

SpecDash == InitDash /\ [][NextDash]_vars

(***************************************************************************)
(* The checker specification: the loop alone, on the monitors loaded at    *)
(* start, with every kind of outcome of requests.get: statuses at and      *)
(* around the limits of the test, Timeout, ConnectionError, another        *)
(* RequestException, and an exception that is none of these.               *)
(***************************************************************************)
LimitStatusCodes == {199, 200, 399, 400, 500}
AllExceptions == {"Timeout", "ConnectionError", "ValueError"} \cup RequestErrors
AllProbeOutcomes ==
  [kind : {"response"}, status : LimitStatusCodes, exc : {""}]
    \cup [kind : {"raise"}, status : {0}, exc : AllExceptions]

NextProbe ==
  \/ Advance
  \/ TickStart
  \/ TickDone
  \/ TickSkip
  \/ \E o \in AllProbeOutcomes : TickProbe(o)
  \/ \E r \in SendOutcomes : SendReturn("tick", r)

SpecProbe == Init /\ [][NextProbe]_vars

(***************************************************************************)
(* The bot on a disk that does not work: every save_monitors raises, so    *)
(* that add and remove end there; the loop runs as before.                 *)
(***************************************************************************)
InitDisk ==
  /\ now = StartTime
  /\ \E f \in Files :
       /\ store = f
       /\ objs = load_monitors(f)
       /\ entries = [i \in 1..Len(f.data) |-> i]
       /\ alerts = [i \in 1..Len(f.data) |-> <<>>]
       /\ probeLog = [i \in 1..Len(f.data) |-> <<>>]
       /\ flips = [i \in 1..Len(f.data) |-> <<>>]
       /\ appended = [i \in 1..Len(f.data) |-> <<>>]
  /\ running = "none"
  /\ pc = [p \in Procs |-> "idle"]
  /\ cur = [p \in Procs |-> NoCur]
  /\ iter = NoIter
  /\ nextTick = StartTime
  /\ reply = NoReply
  /\ logReplies = TRUE
  /\ diskOk = FALSE
  /\ events = 0

DiskStep ==
  \/ Advance
  \/ TickStart
  \/ TickRaise
  \/ TickDone
  \/ TickSkip
  \/ \E o \in ProbeOutcomes : TickProbe(o)
  \/ \E r \in SendOutcomes : SendReturn("tick", r)
  \/ \E n \in Names, u \in DashUrls : AddReject(n, u)
  \/ \E n \in Names, u \in DashUrls, i \in AddIntervals, s \in SaveOutcomes :
       AddAccept(n, u, i, s)
  \/ \E n \in Names : RemoveMissing(n)
  \/ \E n \in Names, s \in SaveOutcomes : RemoveCmd(n, s)

NextDisk ==
  \/ reply = NoReply /\ DiskStep
  \/ Delivered

SpecDisk == InitDisk /\ [][NextDisk]_vars

(***************************************************************************)
(* The bot started without monitors.json: every monitor it has was made by *)
(* the add command.                                                        *)
(***************************************************************************)
InitAdded == Init /\ ~store.exists

SpecAdded == InitAdded /\ [][Next]_vars

(***************************************************************************)
(* The bot with its coroutines going on: an iteration of the loop that can *)
(* take a step takes one, a delivery that is awaited ends, and an add      *)
(* command that waits for its message goes on.  Time and the commands are  *)
(* free.                                                                   *)
(***************************************************************************)
LoopStep ==
  \/ TickStart
  \/ TickRaise
  \/ TickDone
  \/ TickSkip
  \/ \E o \in ProbeOutcomes : TickProbe(o)

DeliveryStep == \E p \in Procs, r \in SendOutcomes : SendReturn(p, r)

AddStep == AddMsgFail \/ \E o \in ProbeOutcomes : AddProbe(o)

SpecFair ==
  /\ Init
  /\ [][Next]_vars
  /\ WF_vars(LoopStep)
  /\ WF_vars(DeliveryStep)
  /\ WF_vars(AddStep)

(***************************************************************************)
(* The history specification: add_status_record applied to one monitor,    *)
(* more often than the history holds records.  Each record carries its own *)
(* timestamp, so that the order of the history is visible.                 *)
(***************************************************************************)
InitHist ==
  /\ now = StartTime
  /\ objs = <<WebsiteMonitor("a", GoodUrl, DefaultInterval, DefaultTimeout)>>
  /\ entries = <<1>>
  /\ store = save_monitors(entries, objs)
  /\ alerts = <<<<>>>>
  /\ probeLog = <<<<>>>>
  /\ flips = <<<<>>>>
  /\ appended = <<<<>>>>
  /\ running = "none"
  /\ pc = [p \in Procs |-> "idle"]
  /\ cur = [p \in Procs |-> NoCur]
  /\ iter = NoIter
  /\ nextTick = StartTime
  /\ reply = NoReply
  /\ logReplies = FALSE
  /\ diskOk = TRUE
  /\ events = 0

FailedRecords(log) == {i \in DOMAIN log : ~log[i].status}

\* monitor.add_status_record(True, response_time) / (False, error=error)
HistAppend(status) ==
  /\ Len(appended[1]) < MaxAppends
  /\ ~status => Cardinality(FailedRecords(appended[1])) < MaxFailedRecords
  /\ LET response_time == IF status THEN CHOOSE l \in Latencies : TRUE ELSE 0
         error == IF status THEN "" ELSE "Timeout"
     IN /\ objs' = [objs EXCEPT ![1] =
                      add_status_record(@, now, status, response_time, error)]
        /\ appended' = [appended EXCEPT ![1] =
                          Append(@, StatusRecord(now, status, response_time, error))]
  /\ now' = now + DefaultInterval
  /\ UNCHANGED <<entries, store, running, pc, cur, iter, nextTick, reply,
                 logReplies, diskOk, alerts, probeLog, flips, events>>

NextHist == \E status \in BOOLEAN : HistAppend(status)

SpecHist == InitHist /\ [][NextHist]_vars

(***************************************************************************)
(* The uptime specification: one monitor whose history gets up and down    *)
(* records while time passes by half days, and get_uptime_percentage       *)
(* applied to it with a window of 12 or of 24 hours.  probeLog keeps the   *)
(* time and the status of each record as they were given.                  *)
(***************************************************************************)
HalfDay == 12 * SecondsPerHour
WindowHours == {12, 24}

InitUptime ==
  /\ now = StartTime
  /\ objs = <<WebsiteMonitor("a", GoodUrl, DefaultInterval, DefaultTimeout)>>
  /\ entries = <<1>>
  /\ store = save_monitors(entries, objs)
  /\ alerts = <<<<>>>>
  /\ probeLog = <<<<>>>>
  /\ flips = <<<<>>>>
  /\ appended = <<<<>>>>
  /\ running = "none"
  /\ pc = [p \in Procs |-> "idle"]
  /\ cur = [p \in Procs |-> NoCur]
  /\ iter = NoIter
  /\ nextTick = StartTime
  /\ reply = NoReply
  /\ logReplies = TRUE
  /\ diskOk = TRUE
  /\ events = 0

\* monitor.add_status_record(True, response_time) / (False, error=error)
UptimeRecord(status) ==
  /\ reply = NoReply
  /\ events < MaxEvents
  /\ LET response_time == IF status THEN CHOOSE l \in Latencies : TRUE ELSE 0
         error == IF status THEN "" ELSE "Timeout"
     IN objs' = [objs EXCEPT ![1] =
                   add_status_record(@, now, status, response_time, error)]
  /\ probeLog' = [probeLog EXCEPT ![1] =
                    Append(@, [t |-> now, by |-> "tick",
                               outcome |-> [kind |-> "", status |-> 0, exc |-> ""],
                               ok |-> status])]
  /\ events' = events + 1
  /\ UNCHANGED <<now, entries, store, running, pc, cur, iter, nextTick, reply,
                 logReplies, diskOk, alerts, flips, appended>>

\* half a day passes
UptimePass ==
  /\ reply = NoReply
  /\ events < MaxEvents
  /\ now' = now + HalfDay
  /\ events' = events + 1
  /\ UNCHANGED <<objs, entries, store, running, pc, cur, iter, nextTick, reply,
                 logReplies, diskOk, alerts, probeLog, flips, appended>>

\* monitor.get_uptime_percentage(hours)
UptimeQuery(hours) ==
  /\ reply = NoReply
  /\ reply' = Say([action |-> "uptime", name |-> objs[1].name, url |-> <<>>,
                   result |-> "value", hours |-> hours,
                   uptime |-> get_uptime_percentage(objs[1], now, hours)])
  /\ UNCHANGED <<now, objs, entries, store, running, pc, cur, iter, nextTick,
                 logReplies, diskOk, alerts, probeLog, flips, appended, events>>

NextUptime ==
  \/ \E status \in BOOLEAN : UptimeRecord(status)
  \/ UptimePass
  \/ \E hours \in WindowHours : UptimeQuery(hours)
  \/ Delivered

SpecUptime == InitUptime /\ [][NextUptime]_vars

(***************************************************************************)
(* The command specification: monitor_command alone, its responses         *)
(* recorded, on a disk that works or on one that does not.                 *)
(***************************************************************************)
InitCmd ==
  /\ now = StartTime
  /\ \E f \in Files :
       /\ store = f
       /\ objs = load_monitors(f)
       /\ entries = [i \in 1..Len(f.data) |-> i]
       /\ alerts = [i \in 1..Len(f.data) |-> <<>>]
       /\ probeLog = [i \in 1..Len(f.data) |-> <<>>]
       /\ flips = [i \in 1..Len(f.data) |-> <<>>]
       /\ appended = [i \in 1..Len(f.data) |-> <<>>]
  /\ running = "none"
  /\ pc = [p \in Procs |-> "idle"]
  /\ cur = [p \in Procs |-> NoCur]
  /\ iter = NoIter
  /\ nextTick = StartTime
  /\ reply = NoReply
  /\ logReplies = TRUE
  /\ diskOk \in BOOLEAN
  /\ events = 0

NextCmd ==
  \/ \E n \in Names, u \in Urls : AddReject(n, u)
  \/ \E n \in Names, u \in Urls, i \in AddIntervals, s \in SaveOutcomes :
       AddAccept(n, u, i, s)
  \/ \E o \in ProbeOutcomes : AddProbe(o)
  \/ AddMsgFail
  \/ \E n \in Names : RemoveMissing(n)
  \/ \E n \in Names, s \in SaveOutcomes : RemoveCmd(n, s)

SpecCmd == InitCmd /\ [][NextCmd]_vars

(***************************************************************************)
(* Properties.  A step probes object id when it adds an entry to the       *)
(* probe log of the object.                                                *)
(***************************************************************************)
Ids == DOMAIN objs

Probed(id) == Len(probeLog'[id]) = Len(probeLog[id]) + 1
ThisProbe(id) == probeLog'[id][Len(probeLog'[id])]
FailedProbe(id) == Probed(id) /\ ~ThisProbe(id).ok
SucceededProbe(id) == Probed(id) /\ ThisProbe(id).ok
PrevFailed(id) == probeLog[id] # <<>> /\ ~probeLog[id][Len(probeLog[id])].ok

\* the object is in the dict or in the hands of a coroutine
Alive(id) == id \in LiveIds \/ \E p \in Procs : cur[p].mon = id

Min(a, b) == IF a <= b THEN a ELSE b
LastN(s, n) == SubSeq(s, Len(s) - n + 1, Len(s))

(***************************************************************************)
(* C1: for a monitor that is up with consecutive_failures = 0 the first    *)
(* failed probe leaves it up and raises no alert; the second failed probe  *)
(* in a row sets is_up to false and raises exactly one Down alert; every   *)
(* further failed probe of the monitor, now down, raises no alert.         *)
(***************************************************************************)
C1_Debounce ==
  [][\A id \in Ids : FailedProbe(id) =>
       LET m == objs[id]
           m2 == objs'[id]
       IN /\ (m.is_up /\ m.consecutive_failures = 0) =>
               /\ m2.is_up
               /\ m2.consecutive_failures = 1
               /\ alerts'[id] = alerts[id]
          /\ (m.is_up /\ m.consecutive_failures = 1 /\ PrevFailed(id)) =>
               /\ ~m2.is_up
               /\ alerts'[id] = Append(alerts[id], "Down")
          /\ ~m.is_up =>
               /\ ~m2.is_up
               /\ alerts'[id] = alerts[id]]_vars

\* a monitor has failed three probes in a row and raised one Down alert
C1_ThreeFailuresOneDown ==
  \E id \in Ids :
    /\ Len(probeLog[id]) = 3
    /\ \A i \in 1..3 : ~probeLog[id][i].ok
    /\ ~objs[id].is_up
    /\ objs[id].consecutive_failures = 3
    /\ alerts[id] = <<"Down">>

(***************************************************************************)
(* C2: a monitor goes from up to down only at a failed probe whose         *)
(* immediately preceding probe of the same monitor failed too; a failure   *)
(* that follows a success never changes is_up (fail, success, fail leaves  *)
(* the monitor up).  The program does not guarantee this.                  *)
(***************************************************************************)
C2_FlipNeedsTwoFailuresInARow ==
  [][\A id \in Ids :
       (objs[id].is_up /\ ~objs'[id].is_up) =>
          (FailedProbe(id) /\ PrevFailed(id))]_vars

(***************************************************************************)
(* C3: after a successful probe of a monitor, whatever is_up was before,   *)
(* consecutive_failures of the monitor is 0.  The program does not         *)
(* guarantee this.                                                         *)
(***************************************************************************)
C3_SuccessResetsFailures ==
  [][\A id \in Ids :
       SucceededProbe(id) => objs'[id].consecutive_failures = 0]_vars

(***************************************************************************)
(* C4: a successful probe of a monitor that is down sets is_up, sets       *)
(* consecutive_failures to 0, sets last_up_time to the current time and    *)
(* raises exactly one Recovery alert; a successful probe of a monitor that *)
(* is up raises no alert.                                                  *)
(***************************************************************************)
C4_Recovery ==
  [][\A id \in Ids : SucceededProbe(id) =>
       LET m == objs[id]
           m2 == objs'[id]
       IN IF ~m.is_up
            THEN /\ m2.is_up
                 /\ m2.consecutive_failures = 0
                 /\ m2.last_up_time = now
                 /\ alerts'[id] = Append(alerts[id], "Recovery")
            ELSE /\ m2.is_up
                 /\ alerts'[id] = alerts[id]]_vars

\* a monitor went down, failed again, and a successful probe brought it back
C4_RecoveredAfterFailures ==
  \E id \in Ids :
    LET n == Len(probeLog[id])
    IN /\ n >= 2
       /\ probeLog[id][n].ok
       /\ ~probeLog[id][n - 1].ok
       /\ objs[id].is_up
       /\ objs[id].consecutive_failures = 0
       /\ objs[id].last_up_time = probeLog[id][n].t
       /\ alerts[id] # <<>>
       /\ alerts[id][Len(alerts[id])] = "Recovery"

(***************************************************************************)
(* C5: in every state, for every monitor of the registry, downtime_start   *)
(* is set if and only if is_up is false; this includes monitors loaded as  *)
(* down and monitors that were down and recovered.  The program does not   *)
(* guarantee this.                                                         *)
(***************************************************************************)
C5_DowntimeStartIffDown ==
  \A id \in LiveIds : Truthy(objs[id].downtime_start) <=> ~objs[id].is_up

(***************************************************************************)
(* C6: total_downtime never decreases, changes only when a monitor goes    *)
(* from down to up, and then grows by the length of the down period that   *)
(* ends: the time since the monitor went down, or since the bot started    *)
(* when the monitor was loaded as down.  The program does not guarantee    *)
(* this.                                                                   *)
(***************************************************************************)
DownSince(id) ==
  IF flips[id] = <<>> THEN StartTime ELSE flips[id][Len(flips[id])].t

C6_DowntimeAccumulates ==
  [][\A id \in Ids : Alive(id)' =>
       LET m == objs[id]
           m2 == objs'[id]
       IN /\ m2.total_downtime >= m.total_downtime
          /\ m2.total_downtime # m.total_downtime => (~m.is_up /\ m2.is_up)
          /\ (~m.is_up /\ m2.is_up) =>
               m2.total_downtime = m.total_downtime + (now - DownSince(id))]_vars

(***************************************************************************)
(* C7: status_history never holds more than 50 records, and it is, in      *)
(* order, the most recent min(n, 50) of the n records appended so far.     *)
(***************************************************************************)
C7_HistoryIsLastFifty ==
  \A id \in Ids :
    LET h == objs[id].status_history
        n == Len(appended[id])
    IN /\ Len(h) <= HistoryCap
       /\ h = LastN(appended[id], Min(n, HistoryCap))

\* more than 50 records were appended: the oldest are gone
C7_Evicted ==
  \E id \in Ids :
    /\ Len(appended[id]) > HistoryCap
    /\ Len(objs[id].status_history) = HistoryCap
    /\ objs[id].status_history[1] # appended[id][1]
    /\ \E i \in DOMAIN objs[id].status_history :
         ~objs[id].status_history[i].status

(***************************************************************************)
(* C8: when the loop of check_websites comes to a monitor, it probes the   *)
(* monitor if and only if last_checked is unset or at least check_interval *)
(* seconds have passed since last_checked.  With an interval of 60 and a   *)
(* probe at t, the iteration at t + 30 passes the monitor by and the one   *)
(* at t + 60 probes it.                                                    *)
(***************************************************************************)
C8_ProbedIffDue ==
  [][\A i \in DOMAIN entries :
       (running = "tick" /\ pc["tick"] = "iter" /\ iter'.pos = i /\ iter.pos < i) =>
          LET id == entries[i]
              m == objs[id]
          IN (Probed(id) /\ ThisProbe(id).by = "tick")
               <=> (m.last_checked = None
                      \/ now - m.last_checked >= m.check_interval)]_vars

\* a monitor with interval 60 was probed by the loop 60 seconds after its
\* previous probe, and not in between
C8_ProbedAgainAfterInterval ==
  \E id \in LiveIds :
    /\ objs[id].check_interval = 60
    /\ Len(probeLog[id]) = 2
    /\ probeLog[id][2].by = "tick"
    /\ probeLog[id][2].t = probeLog[id][1].t + 60
    /\ now = probeLog[id][2].t

(***************************************************************************)
(* C9: a monitor created by add is probed exactly once, by the probe of    *)
(* the add command, before check_interval seconds have passed since that   *)
(* probe, also when an iteration of the loop runs between the insertion    *)
(* of the monitor and that probe.  The program does not guarantee this.    *)
(***************************************************************************)
C9_AddedMonitorProbedOnce ==
  \A id \in Ids :
    \A k \in DOMAIN probeLog[id], j \in DOMAIN probeLog[id] :
      (probeLog[id][k].by = "add" /\ j # k) =>
         probeLog[id][j].t - probeLog[id][k].t >= objs[id].check_interval

(***************************************************************************)
(* C10: an add whose URL lacks a scheme or a host is rejected as invalid,  *)
(* an add whose name is in the registry is rejected as duplicate; either   *)
(* leaves the registry, every monitor and monitors.json as they were, and  *)
(* probes nothing.                                                         *)
(***************************************************************************)
\* the URLs of the inputs that lack a scheme or a host:
\* "x-x", "h://", "//x", "h:x", "-://x"
LacksSchemeOrHost ==
  { <<"x", "-", "x">>, <<"h", ":", "/", "/">>, <<"/", "/", "x">>,
    <<"h", ":", "x">>, <<"-", ":", "/", "/", "x">> }

\* the step answers the command add(name, url) before any probe
AnswersAdd == reply' # reply /\ reply'.action = "add"
                /\ reply'.result \notin {"added_up", "added_down"}

C10_RejectedAddChangesNothing ==
  [][AnswersAdd =>
       /\ reply'.url \in LacksSchemeOrHost => reply'.result = "invalid"
       /\ (reply'.url = GoodUrl /\ reply'.name \in RegisteredNames)
            => reply'.result = "duplicate"
       /\ reply'.result \in {"invalid", "duplicate"} =>
            UNCHANGED <<objs, entries, store, probeLog, pc, cur, appended,
                        alerts, events>>]_vars

\* a duplicate name and a URL without host have been rejected
C10_Rejected ==
  /\ reply.action = "add"
  /\ reply.result \in {"invalid", "duplicate"}
  /\ reply.result = "invalid" => reply.url = <<"h", ":", "/", "/">>
  /\ reply.result = "duplicate" => reply.name \in RegisteredNames
  /\ LiveIds # {}

(***************************************************************************)
(* C11: the set of registered names changes only by an add that is         *)
(* accepted, which adds exactly its name, or by a remove that succeeds,    *)
(* which removes exactly its name; a remove of a name that is not          *)
(* registered answers not found and changes nothing; no step, in           *)
(* particular no probe, no iteration of the loop and no dashboard, adds or *)
(* removes a monitor otherwise or changes the name, url, check_interval or *)
(* timeout of a monitor.                                                   *)
(***************************************************************************)
Answers(action) == reply' # reply /\ reply'.action = action

C11_RegistryFrame ==
  [][/\ RegisteredNames' # RegisteredNames =>
          \/ /\ Answers("add") /\ reply'.result = "accepted"
             /\ reply'.name \notin RegisteredNames
             /\ RegisteredNames' = RegisteredNames \cup {reply'.name}
          \/ /\ Answers("remove") /\ reply'.result = "removed"
             /\ reply'.name \in RegisteredNames
             /\ RegisteredNames' = RegisteredNames \ {reply'.name}
     /\ LiveIds' # LiveIds => RegisteredNames' # RegisteredNames
     /\ (Answers("remove") /\ reply'.name \notin RegisteredNames) =>
          /\ reply'.result = "not_found"
          /\ UNCHANGED <<objs, entries, store, probeLog>>
     /\ \A id \in LiveIds \cap LiveIds' :
          /\ objs'[id].name = objs[id].name
          /\ objs'[id].url = objs[id].url
          /\ objs'[id].check_interval = objs[id].check_interval
          /\ objs'[id].timeout = objs[id].timeout]_vars

\* a monitor was added beside a probed one and removed again
C11_AddedAndRemoved ==
  /\ reply.action = "remove"
  /\ reply.result = "removed"
  /\ reply.name \notin RegisteredNames
  /\ \E id \in LiveIds : probeLog[id] # <<>>
  /\ \E id \in Ids : id \notin LiveIds

(***************************************************************************)
(* C12: when the delivery of a Down or Recovery alert ends, with success   *)
(* or with any failure of the notifier, the monitor has the is_up,         *)
(* consecutive_failures, last_check_succeeded and status_history that the  *)
(* probe gives it when the delivery succeeds.                              *)
(***************************************************************************)
DeliveryEnds(p) == pc[p] = "send" /\ (pc'[p] # "send" \/ cur'[p] # cur[p])

AsDelivered(p) ==
  FinishCheck(objs[cur[p].mon], now, cur[p].handler, cur[p].response_time,
              cur[p].error)

C12_DeliveryFailureKeepsState ==
  [][\A p \in Procs, id \in Ids :
       (DeliveryEnds(p) /\ cur[p].mon = id /\ Alive(id)') =>
         /\ objs'[id].is_up = AsDelivered(p).is_up
         /\ objs'[id].consecutive_failures = AsDelivered(p).consecutive_failures
         /\ objs'[id].last_check_succeeded = AsDelivered(p).last_check_succeeded
         /\ objs'[id].status_history = AsDelivered(p).status_history]_vars

(***************************************************************************)
(* C13: an iteration of check_websites never fails, whatever the probes    *)
(* give, whatever add and remove do meanwhile and whatever the notifier    *)
(* does: no exception leaves the iteration and the loop task never ends.   *)
(***************************************************************************)
C13_TickNeverFails == pc["tick"] # "dead"

(***************************************************************************)
(* C14: a probe counts as succeeded exactly when requests.get returned a   *)
(* response with 200 <= status < 400 (the up handler runs); a status       *)
(* outside, a timeout, a connection error, another request error and any   *)
(* other exception each run the down handler exactly once, with the error  *)
(* text of that outcome, and the exception goes no further.                *)
(***************************************************************************)
ExpectedError(o) ==
  CASE o.kind = "response" /\ o.status = 199 -> "HTTP 199"
    [] o.kind = "response" /\ o.status = 400 -> "HTTP 400"
    [] o.kind = "response" /\ o.status = 500 -> "HTTP 500"
    [] o.kind = "raise" /\ o.exc = "Timeout" -> "Timeout"
    [] o.kind = "raise" /\ o.exc = "ConnectionError" -> "Connection Error"
    [] o.kind = "raise" /\ o.exc = "Exceeded 30 redirects." ->
         "Exceeded 30 redirects."
    [] o.kind = "raise" /\ o.exc = "ValueError" ->
         "Unexpected Error: ValueError"
    [] OTHER -> "?"

InRange(o) == o.kind = "response" /\ 200 <= o.status /\ o.status < 400

\* the handler call of this step went through to add_status_record
Recorded(id) == Len(appended'[id]) = Len(appended[id]) + 1
LastRecord(id) == appended'[id][Len(appended'[id])]
\* the handler call of this step is waiting for the delivery of its alert
Alerting(id, handler) ==
  /\ pc'["tick"] = "send"
  /\ cur'["tick"].mon = id
  /\ cur'["tick"].handler = handler
  /\ appended'[id] = appended[id]

C14_ProbeClassification ==
  [][\A id \in Ids :
       Probed(id) =>
         LET o == ThisProbe(id).outcome
         IN /\ pc'["tick"] # "dead"
            /\ InRange(o) =>
                 /\ objs'[id].consecutive_failures
                      \in {0, objs[id].consecutive_failures}
                 /\ \/ Alerting(id, "up")
                    \/ /\ Recorded(id)
                       /\ LastRecord(id).status
                       /\ objs'[id].last_check_succeeded = "True"
            /\ ~InRange(o) =>
                 /\ objs'[id].consecutive_failures
                      = objs[id].consecutive_failures + 1
                 /\ \/ /\ Alerting(id, "down")
                       /\ cur'["tick"].error = ExpectedError(o)
                    \/ /\ Recorded(id)
                       /\ ~LastRecord(id).status
                       /\ LastRecord(id).error = ExpectedError(o)
                       /\ objs'[id].last_check_succeeded = "False"]_vars

\* one monitor was probed with a status just inside the range, then with an
\* exception that is not a request error, and both are in its history
C14_LimitAndUnexpected ==
  \E id \in LiveIds :
    /\ Len(probeLog[id]) >= 2
    /\ probeLog[id][1].outcome.status = 399
    /\ probeLog[id][2].outcome.exc = "ValueError"
    /\ Len(objs[id].status_history) >= 2
    /\ objs[id].status_history[1].status
    /\ objs[id].status_history[2].error = "Unexpected Error: ValueError"

(***************************************************************************)
(* C15: within one iteration of check_websites the checks follow one       *)
(* another: when the loop probes or skips a monitor, or ends, no call of   *)
(* check_single_website of the loop is in progress, and when such a call   *)
(* returns to the loop the monitor's record is appended and its            *)
(* last_check_succeeded is set; so the loop has one probe in progress at   *)
(* most.                                                                   *)
(***************************************************************************)
LoopGoesOn ==
  \/ pc["tick"] = "iter" /\ iter' # iter
  \/ \E id \in Ids : Probed(id) /\ ThisProbe(id).by = "tick"

LoopCallReturns ==
  /\ cur["tick"] # NoCur
  /\ cur'["tick"] = NoCur
  /\ pc'["tick"] = "iter"

C15_ChecksAreSequential ==
  [][/\ LoopGoesOn => cur["tick"] = NoCur
     /\ cur'["tick"] # NoCur => pc'["tick"] = "send" /\ running' # "tick"
     /\ \A id \in Ids :
          (LoopCallReturns /\ cur["tick"].mon = id /\ Alive(id)') =>
            /\ Recorded(id)
            /\ objs'[id].last_check_succeeded \in {"True", "False"}]_vars

\* one iteration probed two monitors, the first one with an alert whose
\* delivery the loop waited for
C15_TwoProbedInOneIteration ==
  \E id1, id2 \in LiveIds :
    /\ id1 # id2
    /\ probeLog[id1] # <<>> /\ probeLog[id2] # <<>>
    /\ probeLog[id1][Len(probeLog[id1])].by = "tick"
    /\ probeLog[id2][Len(probeLog[id2])].by = "tick"
    /\ probeLog[id1][Len(probeLog[id1])].t = now
    /\ probeLog[id2][Len(probeLog[id2])].t = now
    /\ alerts[id1] # <<>>
    /\ objs[id1].status_history # <<>>
    /\ pc["tick"] = "send"
    /\ cur["tick"].mon = id2

(***************************************************************************)
(* C16: the probes of one monitor are applied one after the other: no      *)
(* probe is applied to a monitor while another call of                     *)
(* check_single_website on that monitor is in progress, waiting for the    *)
(* delivery of its alert (the loop and the add command never work on the   *)
(* same monitor at once).                                                  *)
(***************************************************************************)
InProgress(id) == \E p \in Procs : pc[p] = "send" /\ cur[p].mon = id

C16_MutationsAreSerialized ==
  [][\A id \in Ids : Probed(id) => ~InProgress(id)]_vars

(***************************************************************************)
(* C17: the dashboard never reads a monitor in the middle of a transition: *)
(* when generate_dashboard_embed runs, no call of check_single_website is  *)
(* in progress on a registered monitor, with is_up, last_up_time or        *)
(* downtime_start already updated and the record of the probe not yet      *)
(* appended.                                                               *)
(***************************************************************************)
C17_NoTornSnapshot ==
  [][Answers("dashboard") => \A id \in LiveIds : ~InProgress(id)]_vars

(***************************************************************************)
(* C18: generating the dashboard changes no monitor and nothing of the     *)
(* registry, and its numbers are: total = the number of registered         *)
(* monitors, up = the number of them with is_up, down = total - up, health *)
(* = 100 * up / total (shown with one decimal) when total > 0, and the     *)
(* empty dashboard when total = 0.                                         *)
(***************************************************************************)
UpNames == {n \in RegisteredNames : objs[entries[Lookup(n)]].is_up}

C18_DashboardCounts ==
  [][Answers("dashboard") =>
       LET e == reply'.embed
       IN /\ UNCHANGED <<now, objs, entries, store, running, pc, cur, iter,
                         nextTick, logReplies, diskOk, alerts, probeLog, flips,
                         appended, events>>
          /\ e.empty <=> RegisteredNames = {}
          /\ e.total = Cardinality(RegisteredNames)
          /\ e.up = Cardinality(UpNames)
          /\ e.down = e.total - e.up
          /\ e.total > 0 =>
               /\ 2 * (e.health * e.total - 1000 * e.up) <= e.total
               /\ 2 * (1000 * e.up - e.health * e.total) <= e.total
               /\ Len(e.sites) = e.total
          /\ e.total = 0 => e.sites = <<>> /\ e.health = None]_vars

\* a dashboard of two monitors, one up and one down
C18_HalfHealthy ==
  /\ reply.action = "dashboard"
  /\ reply.embed.total = 2
  /\ reply.embed.up = 1
  /\ reply.embed.down = 1
  /\ reply.embed.health = 500
  /\ \E id \in Ids : id \notin LiveIds

(***************************************************************************)
(* C19: a probe sets last_checked = now, and last_check_succeeded to its   *)
(* outcome, before anything else of the transition: at every step that     *)
(* flips is_up, raises an alert or appends a record, last_check_succeeded  *)
(* already is the outcome of the probe being applied.                      *)
(***************************************************************************)
OutcomeText(id) ==
  IF probeLog'[id][Len(probeLog'[id])].ok THEN "True" ELSE "False"

TransitionEffect(id) ==
  \/ objs'[id].is_up # objs[id].is_up
  \/ Len(alerts'[id]) > Len(alerts[id])
  \/ Recorded(id)

C19_OutcomeSetFirst ==
  [][\A id \in Ids :
       /\ (Probed(id) /\ Alive(id)') => objs'[id].last_checked = now
       /\ (TransitionEffect(id) /\ Alive(id)' /\ probeLog'[id] # <<>>) =>
            objs'[id].last_check_succeeded = OutcomeText(id)]_vars

(***************************************************************************)
(* C20: get_uptime_percentage(hours) is 100 * (up records / records) over  *)
(* the records whose timestamp is strictly later than now - hours; it is   *)
(* 100 when the history is empty or holds no record in the window; a       *)
(* record at or before the cutoff does not count.                          *)
(***************************************************************************)
InWindow(hours) ==
  {i \in DOMAIN probeLog[1] : probeLog[1][i].t > now - hours * 3600}
UpInWindow(hours) == {i \in InWindow(hours) : probeLog[1][i].ok}

C20_UptimeOverWindow ==
  [][Answers("uptime") =>
       LET r == reply'.uptime
           total == Cardinality(InWindow(reply'.hours))
           up == Cardinality(UpInWindow(reply'.hours))
       IN /\ r.den > 0
          /\ total = 0 => r.num = 100 * r.den
          /\ total > 0 => r.num * total = 100 * up * r.den]_vars

\* the history holds a failure exactly at the cutoff and, inside the window,
\* one success and one failure: the answer is 50
C20_RecordAtCutoffLeftOut ==
  /\ reply.action = "uptime"
  /\ reply.uptime = [num |-> 50, den |-> 1]
  /\ Len(objs[1].status_history) = 3
  /\ \E i \in DOMAIN probeLog[1] :
       /\ probeLog[1][i].t = now - reply.hours * 3600
       /\ ~probeLog[1][i].ok

(***************************************************************************)
(* C21: what save_monitors writes, loaded again by load_monitors, is a     *)
(* registry with the same names in which every monitor has the name, url,  *)
(* check_interval, timeout and is_up it had when it was saved and every    *)
(* other field as __init__ sets it; a missing file loads as no monitors.   *)
(***************************************************************************)
Reloaded == load_monitors(store')

SameAsSaved(l) ==
  \E id \in LiveIds' :
    /\ objs'[id].name = l.name
    /\ objs'[id].url = l.url
    /\ objs'[id].check_interval = l.check_interval
    /\ objs'[id].timeout = l.timeout
    /\ objs'[id].is_up = l.is_up

AtCreationDefaults(l) ==
  /\ l.last_checked = None
  /\ l.last_up_time = None
  /\ l.downtime_start = None
  /\ l.total_downtime = 0
  /\ l.consecutive_failures = 0
  /\ l.response_times = <<>>
  /\ l.status_history = <<>>
  /\ l.last_check_succeeded = "None"

C21_SaveLoadRoundTrip ==
  [][/\ store' # store =>
          /\ store'.exists
          /\ Len(Reloaded) = Cardinality(RegisteredNames')
          /\ {Reloaded[i].name : i \in DOMAIN Reloaded} = RegisteredNames'
          /\ \A i \in DOMAIN Reloaded :
               SameAsSaved(Reloaded[i]) /\ AtCreationDefaults(Reloaded[i])
     /\ load_monitors([exists |-> FALSE, data |-> <<>>]) = <<>>]_vars

\* the file holds two monitors, one of them saved while down, and that one
\* has a history and a failure count in memory that the file does not hold
C21_SavedWhileDown ==
  /\ Len(store.data) = 2
  /\ \E i \in DOMAIN store.data, id \in LiveIds :
       /\ ~store.data[i].is_up
       /\ objs[id].name = store.data[i].name
       /\ ~objs[id].is_up
       /\ objs[id].status_history # <<>>
       /\ objs[id].consecutive_failures > 0
       /\ Truthy(objs[id].downtime_start)

(***************************************************************************)
(* C22: when save_monitors fails in add or in remove, the change of the    *)
(* registry stays (the added monitor is registered, the removed one is     *)
(* not), nothing of the loop is touched, and the loop goes on probing the  *)
(* monitors it comes to when they are due, the ones monitors.json does not *)
(* hold included.                                                          *)
(***************************************************************************)
SaveFailed(action) == Answers(action) /\ reply'.result = "error"

LoopUntouched ==
  /\ pc'["tick"] = pc["tick"]
  /\ cur'["tick"] = cur["tick"]
  /\ UNCHANGED <<iter, nextTick, running, store>>

C22_FailedSaveKeepsMutation ==
  [][/\ SaveFailed("add") =>
          /\ reply'.name \notin RegisteredNames
          /\ RegisteredNames' = RegisteredNames \cup {reply'.name}
          /\ LoopUntouched
     /\ SaveFailed("remove") =>
          /\ reply'.name \in RegisteredNames
          /\ RegisteredNames' = RegisteredNames \ {reply'.name}
          /\ LoopUntouched
     /\ RegisteredNames' # RegisteredNames =>
          SaveFailed("add") \/ SaveFailed("remove")
     /\ \A i \in DOMAIN entries :
          (running = "tick" /\ pc["tick"] = "iter" /\ iter'.pos = i
             /\ iter.pos < i /\ Due(objs[entries[i]], now)) =>
            /\ Probed(entries[i])
            /\ ThisProbe(entries[i]).by = "tick"
            /\ objs'[entries[i]].last_checked = now]_vars

\* a monitor that monitors.json does not hold was probed twice by the loop
\* and went down with its alert, after another one was removed from memory
\* only
C22_UnsavedMonitorWentDown ==
  \E id \in LiveIds :
    /\ \A i \in DOMAIN store.data : store.data[i].name # objs[id].name
    /\ Len(probeLog[id]) = 2
    /\ probeLog[id][2].by = "tick"
    /\ ~objs[id].is_up
    /\ alerts[id] = <<"Down">>
    /\ \E i \in DOMAIN store.data : store.data[i].name \notin RegisteredNames

(***************************************************************************)
(* C23: for a monitor made by add the alerts raised are Down, Recovery,    *)
(* Down, ... in turn, the first one Down, whatever the probes give and     *)
(* however the loop and the add command interleave; an alert is raised     *)
(* exactly when is_up changes, so that there is one Down more than         *)
(* Recoveries while is_up is false and as many while it is true.           *)
(***************************************************************************)
Count(log, kind) == Cardinality({k \in DOMAIN log : log[k] = kind})

C23_AlertsAlternate ==
  \A id \in Ids :
    /\ \A k \in DOMAIN alerts[id] :
         alerts[id][k] = IF k % 2 = 1 THEN "Down" ELSE "Recovery"
    /\ Len(alerts[id]) = Len(flips[id])
    /\ \A k \in DOMAIN flips[id] : flips[id][k].up <=> alerts[id][k] = "Recovery"
    /\ Count(alerts[id], "Down") - Count(alerts[id], "Recovery")
         = IF objs[id].is_up THEN 0 ELSE 1

\* a monitor made by add went down and came back
C23_DownThenRecovery ==
  \E id \in LiveIds :
    /\ alerts[id] = <<"Down", "Recovery">>
    /\ objs[id].is_up
    /\ \E k \in DOMAIN probeLog[id] : probeLog[id][k].by = "add"

(***************************************************************************)
(* C24: after remove has taken a monitor out of the registry no probe of   *)
(* it is started and no Down or Recovery alert is raised for it, also when *)
(* an iteration of the loop or an add command was working on it at the     *)
(* time: every probe and every alert is for a registered monitor.          *)
(***************************************************************************)
AlertRaised(id) == Len(alerts'[id]) > Len(alerts[id])

C24_NothingAfterRemove ==
  [][\A id \in Ids : (Probed(id) \/ AlertRaised(id)) => id \in LiveIds]_vars

(***************************************************************************)
(* C25: a registered monitor that is due while an iteration of the loop    *)
(* has still to come to it is probed (it is no longer due afterwards),     *)
(* unless it is removed first, whatever the probes of the monitors before  *)
(* it give and whatever add and remove do meanwhile.  The last disjunct    *)
(* lets a run end where the bound on the events ends it.                   *)
(***************************************************************************)
AwaitsLoop(n) ==
  /\ n \in RegisteredNames
  /\ pc["tick"] \in {"iter", "send"}
  /\ Lookup(n) > iter.pos
  /\ Due(objs[entries[Lookup(n)]], now)
  /\ events < MaxEvents

Served(n) ==
  \/ n \notin RegisteredNames
  \/ ~Due(objs[entries[Lookup(n)]], now)
  \/ events >= MaxEvents

C25_DueMonitorIsProbed == \A n \in Names : AwaitsLoop(n) ~> Served(n)

====
